---- MODULE Spec2Model ----
(***************************************************************************)
(* assemble_vintf: one run of main() of assemble_vintf.cpp.                *)
(*                                                                         *)
(* The command line is consumed one option at a time by the getopt loop of *)
(* main(); AssembleVintf::assemble() and the two assembly procedures are   *)
(* then executed statement group by statement group.  The XML converters, *)
(* HalManifest::checkCompatibility and generateCompatibleMatrix belong to  *)
(* libvintf proper and are modelled by their contracts.                    *)
(***************************************************************************)
EXTENDS Integers, Sequences, FiniteSets, TLC

\* Largest number of options getopt_long hands to the loop of main().
MaxOpts == 3

-----------------------------------------------------------------------------
(* Documents *)

DEVICE == "device"
FRAMEWORK == "framework"

\* vintf::Version; a default-constructed Version is 0.0.
Version(maj, min) == [majorVer |-> maj, minorVer |-> min]
NoVersion == Version(0, 0)

\* vintf::Sepolicy: a kernel sepolicy version and the userspace version pairs.
Sepolicy(kernel, pairs) == [kernelSepolicyVersion |-> kernel, sepolicyVersions |-> pairs]
NoSepolicy == Sepolicy(0, {})

\* A HalManifest object: mType and device.mSepolicyVersion.
HalManifest(type, vers) ==
    [kind |-> "manifest", mType |-> type, mSepolicyVersion |-> vers]

\* A CompatibilityMatrix object: mType and framework.mSepolicy.
CompatibilityMatrix(type, sepolicy) ==
    [kind |-> "matrix", mType |-> type, mSepolicy |-> sepolicy]

\* A default-constructed object of either class (nothing parsed into it).
NoDoc == [kind |-> "none"]

-----------------------------------------------------------------------------
(* Texts and files *)

\* What a stream yields once it has been consumed.
EmptyText == ""

\* The texts found in files.  A text is named after what the two converters
\* make of it; "dual_*" texts are accepted by both converters.
Texts ==
    { "dev_manifest", "fwk_manifest", "dev_matrix", "fwk_matrix",
      "dual_dev", "dual_fwk", "garbage" }

\* gHalManifestConverter(&manifest, text): the object built, NoDoc on failure.
ManifestOf(text) ==
    CASE text = "dev_manifest" -> HalManifest(DEVICE, Version(25, 0))
      [] text = "fwk_manifest" -> HalManifest(FRAMEWORK, NoVersion)
      [] text = "dual_dev"     -> HalManifest(DEVICE, NoVersion)
      [] text = "dual_fwk"     -> HalManifest(FRAMEWORK, NoVersion)
      [] OTHER                 -> NoDoc

\* gCompatibilityMatrixConverter(&matrix, text): the object built, NoDoc on failure.
MatrixOf(text) ==
    CASE text = "dev_matrix" -> CompatibilityMatrix(DEVICE, NoSepolicy)
      [] text = "fwk_matrix" ->
            CompatibilityMatrix(FRAMEWORK, Sepolicy(30, {<<25, 0>>}))
      [] text = "dual_dev"   -> CompatibilityMatrix(DEVICE, NoSepolicy)
      [] text = "dual_fwk"   -> CompatibilityMatrix(FRAMEWORK, NoSepolicy)
      [] OTHER               -> NoDoc

\* The message a converter keeps in lastError() after failing on a text.
ParseError(converter, text) == [converter |-> converter, rejected |-> text]
NoError == [converter |-> "none", rejected |-> EmptyText]

\* Serialization of an object by its converter.
Serialize(doc) ==
    IF doc.kind = "manifest"
    THEN [root |-> "manifest", type |-> doc.mType, sepolicy |-> doc.mSepolicyVersion]
    ELSE [root |-> "compatibility-matrix", type |-> doc.mType,
          sepolicy |-> doc.mSepolicy]

\* HalManifest::generateCompatibleMatrix(): a matrix of the other side that
\* requires what the manifest provides.
generateCompatibleMatrix(manifest) ==
    IF manifest.mType = DEVICE
    THEN CompatibilityMatrix(FRAMEWORK,
            Sepolicy(0, {<<manifest.mSepolicyVersion.majorVer,
                           manifest.mSepolicyVersion.minorVer>>}))
    ELSE CompatibilityMatrix(DEVICE, NoSepolicy)

\* HalManifest::checkCompatibility(matrix): manifest and matrix are of opposite
\* sides, and a device manifest's sepolicy version is one the matrix accepts.
checkCompatibility(manifest, matrix) ==
    /\ manifest.mType # matrix.mType
    /\ manifest.mType = DEVICE =>
          <<manifest.mSepolicyVersion.majorVer, manifest.mSepolicyVersion.minorVer>>
              \in matrix.mSepolicy.sepolicyVersions

\* Paths that name a readable file; the file at path p holds FileText(p).
Files == Texts
FileText(path) == path
\* A path no stream can open.
NoFile == "nofile"
\* Paths an output stream can be opened on.
OutFiles == {"out.xml"}

-----------------------------------------------------------------------------
(* Environment *)

\* C strings, as sequences of tokens.
EnvStrings == { <<"25", ".", "0">>, <<"26", ".", "0">>, <<"30">> }
\* getenv() returning NULL, and returning a string.
Null == [isNull |-> TRUE, str |-> <<>>]
Str(s) == [isNull |-> FALSE, str |-> s]
EnvValues == {Null} \cup {Str(s) : s \in EnvStrings}

Number == ("0" :> 0) @@ ("25" :> 25) @@ ("26" :> 26) @@ ("30" :> 30)

\* parse(const std::string&, Version*): "<major>.<minor>".
parseVersion(s) ==
    IF Len(s) = 3 /\ s[2] = "." /\ s[1] \in DOMAIN Number /\ s[3] \in DOMAIN Number
    THEN [ok |-> TRUE, value |-> Version(Number[s[1]], Number[s[3]])]
    ELSE [ok |-> FALSE, value |-> NoVersion]

\* parse(const std::string&, KernelSepolicyVersion*): one unsigned number.
parseKernelSepolicyVersion(s) ==
    IF Len(s) = 1 /\ s[1] \in DOMAIN Number
    THEN [ok |-> TRUE, value |-> Number[s[1]]]
    ELSE [ok |-> FALSE, value |-> 0]

-----------------------------------------------------------------------------
(* State *)

VARIABLES
    env,              \* the process environment: variable name -> getenv() result
    selfCheckOk,      \* what libvintf's further rules say of the generated matrix
    pc,               \* the statement group main() executes next
    optCount,         \* how many options getopt_long has returned so far
    opt,              \* main()'s res and optarg: what getopt_long returned last
    inFilePath,       \* main()'s inFilePath
    mInFile,          \* AssembleVintf::mInFile
    mOutFileRef,      \* AssembleVintf::mOutFileRef
    mCheckFile,       \* AssembleVintf::mCheckFile
    mOutputMatrix,    \* AssembleVintf::mOutputMatrix
    fileContent,      \* assemble()'s fileContent
    halManifest,      \* assemble()'s halManifest
    matrix,           \* assemble()'s matrix
    generatedMatrix,  \* assembleHalManifest()'s generatedMatrix
    sepolicyVers,     \* assembleCompatibilityMatrix()'s sepolicyVers
    checkDoc,         \* checkMatrix / checkManifest of the assembly procedures
    lastError,        \* lastError() of the two converters
    out,              \* what has been written to out()
    flushed,          \* how much of out has been flushed to its destination
    cerr,             \* what has been written to std::cerr
    log,              \* the calls made so far, in order
    status            \* the exit status of main(); Running until main() returns

vars ==
    << env, selfCheckOk, pc, optCount, opt, inFilePath, mInFile, mOutFileRef, mCheckFile,
       mOutputMatrix, fileContent, halManifest, matrix, generatedMatrix, sepolicyVers,
       checkDoc, lastError, out, flushed, cerr, log, status >>

Running == -1

\* A std::ifstream: whether it is open, on which path, and whether its buffer
\* has been read to the end.
ClosedStream == [is_open |-> FALSE, path |-> NoFile, eof |-> FALSE]

\* std::ifstream::open(path): fails on a stream that is already open (the
\* stream keeps its file) and on a path that cannot be opened.
open(stream, path) ==
    IF stream.is_open THEN stream
    ELSE IF path \in Files THEN [is_open |-> TRUE, path |-> path, eof |-> FALSE]
    ELSE stream

\* AssembleVintf::read(is): everything left in the stream's buffer.
read(stream) ==
    IF stream.is_open /\ ~stream.eof THEN FileText(stream.path) ELSE EmptyText

\* The stream after read().
drained(stream) == [stream EXCEPT !.eof = TRUE]

\* mOutFileRef == nullptr: out() is std::cout.
NullRef == [is_open |-> FALSE, path |-> "std::cout"]

\* A line written to std::cerr.
Diag(msg, about) == [msg |-> msg, about |-> about]

\* The fixed comment that precedes a generated matrix.
SkeletonComment == [root |-> "<!-- Autogenerated skeleton compatibility matrix. -->"]

\* The whole state as one record, so that a statement group is a function on states.
State ==
    [ env |-> env, selfCheckOk |-> selfCheckOk, pc |-> pc, optCount |-> optCount, opt |-> opt,
      inFilePath |-> inFilePath, mInFile |-> mInFile, mOutFileRef |-> mOutFileRef,
      mCheckFile |-> mCheckFile, mOutputMatrix |-> mOutputMatrix,
      fileContent |-> fileContent, halManifest |-> halManifest, matrix |-> matrix,
      generatedMatrix |-> generatedMatrix, sepolicyVers |-> sepolicyVers,
      checkDoc |-> checkDoc, lastError |-> lastError, out |-> out,
      flushed |-> flushed, cerr |-> cerr, log |-> log, status |-> status ]

\* The state is s.
Is(s) ==
    /\ env = s.env
    /\ selfCheckOk = s.selfCheckOk
    /\ pc = s.pc
    /\ optCount = s.optCount
    /\ opt = s.opt
    /\ inFilePath = s.inFilePath
    /\ mInFile = s.mInFile
    /\ mOutFileRef = s.mOutFileRef
    /\ mCheckFile = s.mCheckFile
    /\ mOutputMatrix = s.mOutputMatrix
    /\ fileContent = s.fileContent
    /\ halManifest = s.halManifest
    /\ matrix = s.matrix
    /\ generatedMatrix = s.generatedMatrix
    /\ sepolicyVers = s.sepolicyVers
    /\ checkDoc = s.checkDoc
    /\ lastError = s.lastError
    /\ out = s.out
    /\ flushed = s.flushed
    /\ cerr = s.cerr
    /\ log = s.log
    /\ status = s.status

\* The next state is s.
Become(s) ==
    /\ env' = s.env
    /\ selfCheckOk' = s.selfCheckOk
    /\ pc' = s.pc
    /\ optCount' = s.optCount
    /\ opt' = s.opt
    /\ inFilePath' = s.inFilePath
    /\ mInFile' = s.mInFile
    /\ mOutFileRef' = s.mOutFileRef
    /\ mCheckFile' = s.mCheckFile
    /\ mOutputMatrix' = s.mOutputMatrix
    /\ fileContent' = s.fileContent
    /\ halManifest' = s.halManifest
    /\ matrix' = s.matrix
    /\ generatedMatrix' = s.generatedMatrix
    /\ sepolicyVers' = s.sepolicyVers
    /\ checkDoc' = s.checkDoc
    /\ lastError' = s.lastError
    /\ out' = s.out
    /\ flushed' = s.flushed
    /\ cerr' = s.cerr
    /\ log' = s.log
    /\ status' = s.status

\* main() returns code: the process exits.
exit(s, code) == [s EXCEPT !.status = code, !.pc = "exit"]

\* std::cerr << line.
complain(s, msg, about) == [s EXCEPT !.cerr = Append(@, Diag(msg, about))]

\* One more call in the log.
called(s, what) == [s EXCEPT !.log = Append(@, what)]

-----------------------------------------------------------------------------
(* main(): the option loop *)

\* What getopt_long returns, and the optarg it sets.
Option(res, optarg) == [res |-> res, optarg |-> optarg]

\* getopt_long has returned one more option.
got(s, res, optarg) == [s EXCEPT !.optCount = @ + 1, !.opt = Option(res, optarg)]

\* case 'i'
main_i(s, optarg) ==
    LET f == open(s.mInFile, optarg)
        t == [got(s, "i", optarg) EXCEPT !.inFilePath = optarg, !.mInFile = f]
    IN  IF ~f.is_open
        THEN exit(complain(t, "Failed to open", optarg), 1)
        ELSE t

\* AssembleVintf::openOutFile, as called by case 'o'
main_o(s, optarg) ==
    LET f == [is_open |-> optarg \in OutFiles, path |-> optarg]
        t == [got(s, "o", optarg) EXCEPT !.mOutFileRef = f]
    IN  IF ~f.is_open
        THEN exit(complain(t, "Failed to open", optarg), 1)
        ELSE t

\* case 'm'
main_m(s) == [got(s, "m", EmptyText) EXCEPT !.mOutputMatrix = TRUE]

\* Variant of case 'c': an empty argument is treated like a path.
main_c_emptyIsPath(s, optarg) ==
    LET f == open(s.mCheckFile, optarg)
        u == [got(s, "c", optarg) EXCEPT !.mCheckFile = f]
    IN  IF ~f.is_open
        THEN exit(complain(u, "Failed to open", optarg), 1)
        ELSE u

\* case 'c'
main_c(s, optarg) ==
    LET t == got(s, "c", optarg)
    IN  IF optarg # EmptyText
        THEN LET f == open(s.mCheckFile, optarg)
                 u == [t EXCEPT !.mCheckFile = f]
             IN  IF ~f.is_open
                 THEN exit(complain(u, "Failed to open", optarg), 1)
                 ELSE u
        ELSE complain(t, "WARNING: no compatibility check is done on", s.inFilePath)

\* case 'h' and default
main_h(s) ==
    exit(complain(got(s, "h", EmptyText), "assemble_vintf: usage", EmptyText), 1)

\* getopt_long returns -1: the loop ends and assemble() is called.
main_end(s) == [s EXCEPT !.opt = Option("-1", EmptyText), !.pc = "assemble"]

-----------------------------------------------------------------------------
(* AssembleVintf *)

\* parse(const std::string&, T*) for the two types getFlag is used with.
parse(T, s) ==
    IF T = "Version" THEN parseVersion(s) ELSE parseKernelSepolicyVersion(s)

\* getFlag<T>(key, value): whether it succeeds, the value it stores, and the
\* line it writes to std::cerr when it fails.
getFlag(e, key, T) ==
    LET envValue == e[key]
    IN  IF envValue.isNull
        THEN [ok |-> FALSE, value |-> parse(T, <<>>).value, diag |-> Diag("Required flag", key)]
        ELSE IF ~parse(T, envValue.str).ok
        THEN [ok |-> FALSE, value |-> parse(T, <<>>).value,
              diag |-> Diag("Cannot parse", envValue.str)]
        ELSE [ok |-> TRUE, value |-> parse(T, envValue.str).value, diag |-> Diag("", key)]

\* Variant of the first statements: the input stream is read without the test
\* of is_open().
assemble_read_unchecked(s) ==
    [called(s, "read:input") EXCEPT
        !.fileContent = read(s.mInFile),
        !.mInFile = drained(s.mInFile),
        !.pc = "parseManifest"]

\* assemble(), to the read of the input file.
assemble_read(s) ==
    IF ~s.mInFile.is_open
    THEN exit(complain(s, "Missing input file.", EmptyText), 1)
    ELSE [called(s, "read:input") EXCEPT
            !.fileContent = read(s.mInFile),
            !.mInFile = drained(s.mInFile),
            !.pc = "parseManifest"]

\* assemble(): the input is tried as a HAL manifest.
assemble_parseManifest(s) ==
    LET m == ManifestOf(s.fileContent)
        t == called(s, "parse:manifest")
    IN  IF m # NoDoc
        THEN [t EXCEPT !.halManifest = m, !.pc = "hm_getFlag"]
        ELSE [t EXCEPT !.lastError.manifest = ParseError("manifest", s.fileContent),
                       !.pc = "parseMatrix"]

\* Variant of the flag step: the flag is read and checked but not stored.
assembleHalManifest_getFlag_notStored(s) ==
    LET t == called(s, "enter:assembleHalManifest")
        emit == IF s.mOutputMatrix THEN "hm_generate" ELSE "hm_emitManifest"
    IN  IF s.halManifest.mType = DEVICE
        THEN LET f == getFlag(s.env, "BOARD_SEPOLICY_VERS", "Version")
                 u == called(t, "getenv:BOARD_SEPOLICY_VERS")
             IN  IF ~f.ok
                 THEN [u EXCEPT !.cerr = Append(@, f.diag), !.pc = "parseMatrix"]
                 ELSE [u EXCEPT !.pc = emit]
        ELSE [t EXCEPT !.pc = emit]

\* assembleHalManifest(): the sepolicy version of a device manifest.
\* Returning false resumes assemble() at the matrix attempt.
assembleHalManifest_getFlag(s) ==
    LET t == called(s, "enter:assembleHalManifest")
        emit == IF s.mOutputMatrix THEN "hm_generate" ELSE "hm_emitManifest"
    IN  IF s.halManifest.mType = DEVICE
        THEN LET f == getFlag(s.env, "BOARD_SEPOLICY_VERS", "Version")
                 u == called(t, "getenv:BOARD_SEPOLICY_VERS")
             IN  IF ~f.ok
                 THEN [u EXCEPT !.cerr = Append(@, f.diag), !.pc = "parseMatrix"]
                 ELSE [u EXCEPT !.halManifest.mSepolicyVersion = f.value, !.pc = emit]
        ELSE [t EXCEPT !.pc = emit]

\* Variant of the self-check: the comment and the matrix are written first, the
\* check comes after them.
assembleHalManifest_generate_afterEmit(s) ==
    LET g == generateCompatibleMatrix(s.halManifest)
        t == [called(called(s, "emit:skeleton"), "selfcheck") EXCEPT
                !.generatedMatrix = g,
                !.out = @ \o <<SkeletonComment, Serialize(g)>>,
                !.pc = "hm_flush"]
    IN  IF ~(s.selfCheckOk /\ checkCompatibility(s.halManifest, g))
        THEN complain(t, "FATAL ERROR: cannot generate a compatible matrix", EmptyText)
        ELSE t

\* Variant of the self-check: a failed check makes assembleHalManifest return false.
assembleHalManifest_generate_fatal(s) ==
    LET g == generateCompatibleMatrix(s.halManifest)
        t == [called(s, "selfcheck") EXCEPT !.generatedMatrix = g, !.pc = "hm_emitMatrix"]
    IN  IF ~(s.selfCheckOk /\ checkCompatibility(s.halManifest, g))
        THEN [complain(t, "FATAL ERROR: cannot generate a compatible matrix", EmptyText)
                EXCEPT !.pc = "parseMatrix"]
        ELSE t

\* assembleHalManifest(), -m: the matrix is generated and checked against the
\* manifest it was generated from.  checkCompatibility has rules beyond the two
\* modelled above (HALs, kernel, ...); s.selfCheckOk is their verdict here.
assembleHalManifest_generate(s) ==
    LET g == generateCompatibleMatrix(s.halManifest)
        t == [called(s, "selfcheck") EXCEPT !.generatedMatrix = g, !.pc = "hm_emitMatrix"]
    IN  IF ~(s.selfCheckOk /\ checkCompatibility(s.halManifest, g))
        THEN complain(t, "FATAL ERROR: cannot generate a compatible matrix", EmptyText)
        ELSE t

\* assembleHalManifest(), -m: the comment and the generated matrix are written.
assembleHalManifest_emitMatrix(s) ==
    [called(s, "emit:skeleton") EXCEPT
        !.out = @ \o <<SkeletonComment, Serialize(s.generatedMatrix)>>,
        !.pc = "hm_flush"]

\* assembleHalManifest(), no -m: the manifest is written.
assembleHalManifest_emitManifest(s) ==
    [called(s, "emit:manifest") EXCEPT
        !.out = Append(@, Serialize(s.halManifest)),
        !.pc = "hm_flush"]

\* assembleHalManifest(): out().flush(), then the test of mCheckFile.
assembleHalManifest_flush(s) ==
    LET t == [called(s, "flush") EXCEPT !.flushed = Len(s.out)]
    IN  IF s.mCheckFile.is_open
        THEN [t EXCEPT !.pc = "hm_checkParse"]
        ELSE exit(t, 0)

\* assembleHalManifest(): the check file is read and parsed as a matrix.
assembleHalManifest_checkParse(s) ==
    LET text == read(s.mCheckFile)
        m == MatrixOf(text)
        t == [called(called(s, "read:check"), "refparse:matrix") EXCEPT
                !.mCheckFile = drained(s.mCheckFile)]
    IN  IF m = NoDoc
        THEN [complain(t, "Cannot parse check file as a compatibility matrix",
                       ParseError("matrix", text))
                EXCEPT !.lastError.matrix = ParseError("matrix", text),
                       !.pc = "parseMatrix"]
        ELSE [t EXCEPT !.checkDoc = m, !.pc = "hm_checkCompat"]

\* Variant of the check: its verdict is reported but does not fail the run.
assembleHalManifest_checkCompat_ignored(s) ==
    LET t == called(s, "refcheck")
    IN  IF ~checkCompatibility(s.halManifest, s.checkDoc)
        THEN exit(complain(t, "Not compatible", "with the check matrix"), 0)
        ELSE exit(t, 0)

\* assembleHalManifest(): the manifest is checked against the check matrix.
assembleHalManifest_checkCompat(s) ==
    LET t == called(s, "refcheck")
    IN  IF ~checkCompatibility(s.halManifest, s.checkDoc)
        THEN [complain(t, "Not compatible", "with the check matrix")
                EXCEPT !.pc = "parseMatrix"]
        ELSE exit(t, 0)

\* assemble(): the input is tried as a compatibility matrix.
assemble_parseMatrix(s) ==
    LET m == MatrixOf(s.fileContent)
        t == called(s, "parse:matrix")
    IN  IF m # NoDoc
        THEN [t EXCEPT !.matrix = m, !.pc = "cm_getFlagBoard"]
        ELSE [t EXCEPT !.lastError.matrix = ParseError("matrix", s.fileContent),
                       !.pc = "unknown"]

\* assembleCompatibilityMatrix(): BOARD_SEPOLICY_VERS of a framework matrix.
\* Returning false resumes assemble() at its last statement.
assembleCompatibilityMatrix_getFlagBoard(s) ==
    LET t == called(s, "enter:assembleCompatibilityMatrix")
    IN  IF s.matrix.mType = FRAMEWORK
        THEN LET f == getFlag(s.env, "BOARD_SEPOLICY_VERS", "Version")
                 u == called(t, "getenv:BOARD_SEPOLICY_VERS")
             IN  IF ~f.ok
                 THEN [u EXCEPT !.cerr = Append(@, f.diag), !.pc = "unknown"]
                 ELSE [u EXCEPT !.sepolicyVers = f.value, !.pc = "cm_getFlagPolicy"]
        ELSE [t EXCEPT !.pc = "cm_emit"]

\* Variant of the assignment of mSepolicy: the versions of the parsed document
\* are kept beside the one of BOARD_SEPOLICY_VERS.
assembleCompatibilityMatrix_getFlagPolicy_merge(s) ==
    LET f == getFlag(s.env, "POLICYVERS", "KernelSepolicyVersion")
        u == called(s, "getenv:POLICYVERS")
    IN  IF ~f.ok
        THEN [u EXCEPT !.cerr = Append(@, f.diag), !.pc = "unknown"]
        ELSE [u EXCEPT
                !.matrix.mSepolicy =
                    Sepolicy(f.value,
                             s.matrix.mSepolicy.sepolicyVersions \cup
                             {<<s.sepolicyVers.majorVer, s.sepolicyVers.minorVer>>}),
                !.pc = "cm_emit"]

\* assembleCompatibilityMatrix(): POLICYVERS, and the assignment of mSepolicy.
assembleCompatibilityMatrix_getFlagPolicy(s) ==
    LET f == getFlag(s.env, "POLICYVERS", "KernelSepolicyVersion")
        u == called(s, "getenv:POLICYVERS")
    IN  IF ~f.ok
        THEN [u EXCEPT !.cerr = Append(@, f.diag), !.pc = "unknown"]
        ELSE [u EXCEPT
                !.matrix.mSepolicy =
                    Sepolicy(f.value, {<<s.sepolicyVers.majorVer, s.sepolicyVers.minorVer>>}),
                !.pc = "cm_emit"]

\* Variant of the emission: nothing is written before the check.
assembleCompatibilityMatrix_emit_late(s) == [s EXCEPT !.pc = "cm_flush"]

\* Variant of the emission: -m puts the comment before a matrix, too.
assembleCompatibilityMatrix_emit_comment(s) ==
    [called(s, "emit:matrix") EXCEPT
        !.out = IF s.mOutputMatrix
                THEN @ \o <<SkeletonComment, Serialize(s.matrix)>>
                ELSE Append(@, Serialize(s.matrix)),
        !.pc = "cm_flush"]

\* assembleCompatibilityMatrix(): the matrix is written.
assembleCompatibilityMatrix_emit(s) ==
    [called(s, "emit:matrix") EXCEPT
        !.out = Append(@, Serialize(s.matrix)),
        !.pc = "cm_flush"]

\* assembleCompatibilityMatrix(): out().flush(), then the test of mCheckFile.
assembleCompatibilityMatrix_flush(s) ==
    LET t == [called(s, "flush") EXCEPT !.flushed = Len(s.out)]
    IN  IF s.mCheckFile.is_open
        THEN [t EXCEPT !.pc = "cm_checkParse"]
        ELSE exit(t, 0)

\* assembleCompatibilityMatrix(): the check file is read and parsed as a manifest.
assembleCompatibilityMatrix_checkParse(s) ==
    LET text == read(s.mCheckFile)
        m == ManifestOf(text)
        t == [called(called(s, "read:check"), "refparse:manifest") EXCEPT
                !.mCheckFile = drained(s.mCheckFile)]
    IN  IF m = NoDoc
        THEN [complain(t, "Cannot parse check file as a HAL manifest",
                       ParseError("manifest", text))
                EXCEPT !.lastError.manifest = ParseError("manifest", text),
                       !.pc = "unknown"]
        ELSE [t EXCEPT !.checkDoc = m, !.pc = "cm_checkCompat"]

\* assembleCompatibilityMatrix(): the check manifest is checked against the matrix.
assembleCompatibilityMatrix_checkCompat(s) ==
    LET t == called(s, "refcheck")
    IN  IF ~checkCompatibility(s.checkDoc, s.matrix)
        THEN [complain(t, "Not compatible", "with the check manifest")
                EXCEPT !.pc = "unknown"]
        ELSE exit(t, 0)

\* Variant of the last statement: only the matrix converter's error is shown.
assemble_unknown_oneError(s) ==
    exit(complain(s, "Input file has unknown format.", <<s.lastError.matrix>>), 1)

\* assemble(): its last statement, and main() returning 1.
assemble_unknown(s) ==
    exit(complain(s, "Input file has unknown format.",
                  <<s.lastError.manifest, s.lastError.matrix>>), 1)

\* assemble() from the state s on, one statement group.
step(s) ==
    CASE s.pc = "assemble"         -> assemble_read(s)
      [] s.pc = "parseManifest"    -> assemble_parseManifest(s)
      [] s.pc = "hm_getFlag"       -> assembleHalManifest_getFlag(s)
      [] s.pc = "hm_generate"      -> assembleHalManifest_generate(s)
      [] s.pc = "hm_emitMatrix"    -> assembleHalManifest_emitMatrix(s)
      [] s.pc = "hm_emitManifest"  -> assembleHalManifest_emitManifest(s)
      [] s.pc = "hm_flush"         -> assembleHalManifest_flush(s)
      [] s.pc = "hm_checkParse"    -> assembleHalManifest_checkParse(s)
      [] s.pc = "hm_checkCompat"   -> assembleHalManifest_checkCompat(s)
      [] s.pc = "parseMatrix"      -> assemble_parseMatrix(s)
      [] s.pc = "cm_getFlagBoard"  -> assembleCompatibilityMatrix_getFlagBoard(s)
      [] s.pc = "cm_getFlagPolicy" -> assembleCompatibilityMatrix_getFlagPolicy(s)
      [] s.pc = "cm_emit"          -> assembleCompatibilityMatrix_emit(s)
      [] s.pc = "cm_flush"         -> assembleCompatibilityMatrix_flush(s)
      [] s.pc = "cm_checkParse"    -> assembleCompatibilityMatrix_checkParse(s)
      [] s.pc = "cm_checkCompat"   -> assembleCompatibilityMatrix_checkCompat(s)
      [] s.pc = "unknown"          -> assemble_unknown(s)
      [] OTHER                     -> s

\* The state in which main() returns when assemble() is run from s.
RECURSIVE run(_)
run(s) == IF s.pc \in {"exit", "getopt"} THEN s ELSE run(step(s))

\* The state main() starts in, for an environment e and a verdict ok of
\* libvintf's further rules on a generated matrix.
start(e, ok) ==
    [ env |-> e, selfCheckOk |-> ok, pc |-> "getopt", optCount |-> 0,
      opt |-> Option("none", EmptyText),
      inFilePath |-> EmptyText, mInFile |-> ClosedStream, mOutFileRef |-> NullRef,
      mCheckFile |-> ClosedStream, mOutputMatrix |-> FALSE,
      fileContent |-> EmptyText, halManifest |-> NoDoc, matrix |-> NoDoc,
      generatedMatrix |-> NoDoc, sepolicyVers |-> NoVersion, checkDoc |-> NoDoc,
      lastError |-> [manifest |-> NoError, matrix |-> NoError], out |-> <<>>,
      flushed |-> 0, cerr |-> <<>>, log |-> <<>>, status |-> Running ]

-----------------------------------------------------------------------------
(* Specification *)

Environments == [{"BOARD_SEPOLICY_VERS", "POLICYVERS"} -> EnvValues]

Init ==
    \E e \in Environments : Is(start(e, TRUE))

MoreOpts == pc = "getopt" /\ optCount < MaxOpts

OptI == MoreOpts /\ \E optarg \in Files \cup {NoFile} : Become(main_i(State, optarg))
OptO == MoreOpts /\ \E optarg \in OutFiles \cup {NoFile} : Become(main_o(State, optarg))
OptM == MoreOpts /\ Become(main_m(State))
OptC ==
    MoreOpts /\ \E optarg \in Files \cup {NoFile, EmptyText} : Become(main_c(State, optarg))
OptH == MoreOpts /\ Become(main_h(State))
OptEnd == pc = "getopt" /\ Become(main_end(State))

At(label) == pc = label

AssembleRead == At("assemble") /\ Become(assemble_read(State))
ParseManifest == At("parseManifest") /\ Become(assemble_parseManifest(State))
HalGetFlag == At("hm_getFlag") /\ Become(assembleHalManifest_getFlag(State))
\* The verdict of libvintf's further rules is drawn when the check is called.
HalGenerate ==
    At("hm_generate") /\ \E ok \in BOOLEAN :
        Become(assembleHalManifest_generate([State EXCEPT !.selfCheckOk = ok]))
HalEmitMatrix == At("hm_emitMatrix") /\ Become(assembleHalManifest_emitMatrix(State))
HalEmitManifest == At("hm_emitManifest") /\ Become(assembleHalManifest_emitManifest(State))
HalFlush == At("hm_flush") /\ Become(assembleHalManifest_flush(State))
HalCheckParse == At("hm_checkParse") /\ Become(assembleHalManifest_checkParse(State))
HalCheckCompat == At("hm_checkCompat") /\ Become(assembleHalManifest_checkCompat(State))
ParseMatrix == At("parseMatrix") /\ Become(assemble_parseMatrix(State))
MatGetFlagBoard ==
    At("cm_getFlagBoard") /\ Become(assembleCompatibilityMatrix_getFlagBoard(State))
MatGetFlagPolicy ==
    At("cm_getFlagPolicy") /\ Become(assembleCompatibilityMatrix_getFlagPolicy(State))
MatEmit == At("cm_emit") /\ Become(assembleCompatibilityMatrix_emit(State))
MatFlush == At("cm_flush") /\ Become(assembleCompatibilityMatrix_flush(State))
MatCheckParse == At("cm_checkParse") /\ Become(assembleCompatibilityMatrix_checkParse(State))
MatCheckCompat ==
    At("cm_checkCompat") /\ Become(assembleCompatibilityMatrix_checkCompat(State))
Unknown == At("unknown") /\ Become(assemble_unknown(State))

Next ==
    \/ OptI \/ OptO \/ OptM \/ OptC \/ OptH \/ OptEnd
    \/ AssembleRead \/ ParseManifest
    \/ HalGetFlag \/ HalGenerate \/ HalEmitMatrix \/ HalEmitManifest \/ HalFlush
    \/ HalCheckParse \/ HalCheckCompat
    \/ ParseMatrix
    \/ MatGetFlagBoard \/ MatGetFlagPolicy \/ MatEmit \/ MatFlush
    \/ MatCheckParse \/ MatCheckCompat
    \/ Unknown

Spec == Init /\ [][Next]_vars

-----------------------------------------------------------------------------
(* Vocabulary of the properties *)

\* The call e has been made.
Logged(e) == \E i \in 1..Len(log) : log[i] = e

\* A line with this message has been written to std::cerr.
Reported(msg) == \E i \in 1..Len(cerr) : cerr[i].msg = msg

Exited == pc = "exit"

IsPrefix(p, q) == Len(p) <= Len(q) /\ SubSeq(q, 1, Len(p)) = p

\* The input has been read and the manifest converter accepts it: the input is
\* a Manifest, whatever the matrix converter makes of it.
ClassifiedManifest == ManifestOf(fileContent) # NoDoc

\* The input has been read, and only the matrix converter accepts it.
ClassifiedMatrix == ManifestOf(fileContent) = NoDoc /\ MatrixOf(fileContent) # NoDoc

\* The input has been read and both converters accept it.
DualInput == ManifestOf(fileContent) # NoDoc /\ MatrixOf(fileContent) # NoDoc

BoardOk == getFlag(env, "BOARD_SEPOLICY_VERS", "Version").ok
PolicyOk == getFlag(env, "POLICYVERS", "KernelSepolicyVersion").ok

EmitSteps == {"emit:manifest", "emit:skeleton", "emit:matrix"}
RefSteps == {"read:check", "refparse:matrix", "refparse:manifest", "refcheck"}
CheckLabels == {"hm_checkParse", "hm_checkCompat", "cm_checkParse", "cm_checkCompat"}

\* The state in which assemble() is called with the objects of state s.
restart(s) ==
    [ start(s.env, s.selfCheckOk) EXCEPT
        !.pc = "assemble",
        !.optCount = s.optCount,
        !.opt = Option("-1", EmptyText),
        !.inFilePath = s.inFilePath,
        !.mInFile = [s.mInFile EXCEPT !.eof = FALSE],
        !.mOutFileRef = s.mOutFileRef,
        !.mCheckFile = [s.mCheckFile EXCEPT !.eof = FALSE],
        !.mOutputMatrix = s.mOutputMatrix ]

\* Two runs write the same output and exit with the same status.
SameOutcome(r1, r2) == r1.out = r2.out /\ r1.status = r2.status

-----------------------------------------------------------------------------
(* C1 *)

\* C1: when both converters accept the input, the run treats it as a Manifest
\* only: assembleCompatibilityMatrix is never entered and the matrix parsed from
\* the input is never written.
C1_DualInputIsManifestOnly ==
    DualInput =>
        /\ ~Logged("enter:assembleCompatibilityMatrix")
        /\ ~Logged("emit:matrix")

-----------------------------------------------------------------------------
(* C2 *)

\* A variable the classified document requires is unset or cannot be parsed.
RequiredFlagFails ==
    \/ ClassifiedManifest /\ ManifestOf(fileContent).mType = DEVICE /\ ~BoardOk
    \/ ClassifiedMatrix /\ MatrixOf(fileContent).mType = FRAMEWORK
          /\ (~BoardOk \/ ~PolicyOk)

\* C2: when a variable required by the classified document is unset or cannot
\* be parsed, nothing is ever written to the output and the run exits 1.
C2_RequiredFlagFailureWritesNothing ==
    RequiredFlagFails => out = <<>> /\ (Exited => status = 1)

-----------------------------------------------------------------------------
(* C3 *)

\* The emissions that come before a reference step on its assembly path.
EmitsBefore(refStep) ==
    CASE refStep = "refparse:matrix"   -> {"emit:manifest", "emit:skeleton"}
      [] refStep = "refparse:manifest" -> {"emit:matrix"}
      [] OTHER                         -> EmitSteps

\* C3: the read and parse of the check file and the compatibility check against
\* it come only after the serialization of the assembly path has been written
\* and out() flushed, nothing having been written since; while a reference step
\* is due, all of the output is flushed.
C3_EmitAndFlushBeforeReferenceCheck ==
    /\ pc \in CheckLabels => out # <<>> /\ flushed = Len(out)
    /\ \A i \in 1..Len(log) :
          log[i] \in RefSteps =>
              \E j, k \in 1..(i - 1) :
                  /\ j < k
                  /\ log[j] \in EmitsBefore(log[i])
                  /\ log[k] = "flush"
                  /\ \A l \in (k + 1)..(i - 1) : log[l] \notin EmitSteps

\* A run in which the check file was parsed and checked on the manifest path.
C3_Witness ==
    /\ Exited
    /\ Logged("refparse:matrix")
    /\ Logged("refcheck")
    /\ flushed = Len(out)

-----------------------------------------------------------------------------
(* C4 *)

\* A line with this message and this subject has been written to std::cerr.
ReportedAbout(msg, about) == \E i \in 1..Len(cerr) : cerr[i] = Diag(msg, about)

\* assembleHalManifest: the check file is no matrix, or the manifest fails the
\* check against it.
ManifestCheckFailed ==
    \/ Reported("Cannot parse check file as a compatibility matrix")
    \/ ReportedAbout("Not compatible", "with the check matrix")

\* assembleCompatibilityMatrix: the check file is no manifest, or it fails the
\* check against the matrix.
MatrixCheckFailed ==
    \/ Reported("Cannot parse check file as a HAL manifest")
    \/ ReportedAbout("Not compatible", "with the check manifest")

\* What assembleHalManifest writes for the manifest it holds.
ManifestEmission ==
    IF mOutputMatrix
    THEN <<SkeletonComment, Serialize(generateCompatibleMatrix(halManifest))>>
    ELSE <<Serialize(halManifest)>>

\* C4: when the check file does not parse as the counterpart kind or the
\* compatibility check against it fails, the run exits 1 and the output, all of
\* it flushed by then, holds what was emitted for the document under check: the
\* manifest (with -m, the comment and the generated matrix) at its start, or the
\* matrix at its end.
C4_FailedReferenceCheckKeepsOutput ==
    /\ ManifestCheckFailed =>
          /\ mCheckFile.is_open
          /\ IsPrefix(ManifestEmission, out)
          /\ flushed >= Len(ManifestEmission)
    /\ MatrixCheckFailed =>
          /\ mCheckFile.is_open
          /\ out # <<>>
          /\ out[Len(out)] = Serialize(matrix)
          /\ flushed = Len(out)
    /\ (ManifestCheckFailed \/ MatrixCheckFailed) /\ Exited =>
          status = 1 /\ flushed = Len(out)

\* A manifest was emitted, then found incompatible with the check matrix.
C4_Witness ==
    /\ Exited
    /\ status = 1
    /\ ClassifiedManifest
    /\ ~mOutputMatrix
    /\ ManifestCheckFailed
    /\ out # <<>>
    /\ out[1] = Serialize(halManifest)

-----------------------------------------------------------------------------
(* C5 *)

\* C5: for a manifest with -m, once the flag step has succeeded, what is written
\* is the comment followed by the serialized generated matrix; the run with the
\* other verdict of the self-check writes the same output and exits with the
\* same status; without a check file the run exits 0 with exactly that output.
C5_SkeletonSelfCheckIsAdvisory ==
    /\ pc = "hm_flush" /\ mOutputMatrix =>
          /\ Logged("selfcheck")
          /\ out = <<SkeletonComment, Serialize(generateCompatibleMatrix(halManifest))>>
    /\ Exited /\ Logged("selfcheck") =>
          /\ ClassifiedManifest /\ mOutputMatrix
          /\ IsPrefix(ManifestEmission, out)
          /\ SameOutcome(State, run(restart([State EXCEPT !.selfCheckOk = ~selfCheckOk])))
          /\ ~mCheckFile.is_open => status = 0 /\ out = ManifestEmission

\* The self-check failed, the skeleton was written and the run exited 0.
C5_Witness ==
    /\ Exited
    /\ Logged("selfcheck")
    /\ ~selfCheckOk
    /\ Reported("FATAL ERROR: cannot generate a compatible matrix")
    /\ ~mCheckFile.is_open
    /\ out = ManifestEmission
    /\ status = 0

-----------------------------------------------------------------------------
(* C6 *)

\* C6: for a device manifest and a parseable BOARD_SEPOLICY_VERS, without -m,
\* the manifest is written with the version parsed from the variable in place
\* of the version parsed from the input, and without a check file the run
\* exits 0 with that output.
C6_InjectedVersionIsEmitted ==
    LET m == ManifestOf(fileContent)
        v == parseVersion(env["BOARD_SEPOLICY_VERS"].str).value
        emitted == Serialize(HalManifest(DEVICE, v))
    IN  (m # NoDoc /\ m.mType = DEVICE /\ BoardOk /\ ~mOutputMatrix) =>
            /\ Logged("emit:manifest") => out # <<>> /\ out[1] = emitted
            /\ Exited =>
                  /\ Logged("emit:manifest")
                  /\ ~mCheckFile.is_open => status = 0 /\ out = <<emitted>>

\* The input gave version 25.0, the variable 26.0, and 26.0 was written.
C6_Witness ==
    /\ Exited
    /\ status = 0
    /\ fileContent = "dev_manifest"
    /\ ManifestOf(fileContent).mSepolicyVersion = Version(25, 0)
    /\ env["BOARD_SEPOLICY_VERS"] = Str(<<"26", ".", "0">>)
    /\ out = <<Serialize(HalManifest(DEVICE, Version(26, 0)))>>

-----------------------------------------------------------------------------
(* C7 *)

\* The classified document is one the flag steps leave alone.
NeedsNoFlag ==
    \/ ClassifiedManifest /\ ManifestOf(fileContent).mType = FRAMEWORK
    \/ ClassifiedMatrix /\ MatrixOf(fileContent).mType = DEVICE

\* C7: for a framework manifest and for a device matrix no environment variable
\* is read, and the run writes the same output and exits with the same status
\* under every environment.
C7_OtherKindsIgnoreEnvironment ==
    NeedsNoFlag =>
        /\ ~Logged("getenv:BOARD_SEPOLICY_VERS")
        /\ ~Logged("getenv:POLICYVERS")
        /\ Exited =>
              \A e \in Environments :
                  SameOutcome(State, run(restart([State EXCEPT !.env = e])))

-----------------------------------------------------------------------------
(* C8 *)

\* C8: when neither converter accepts the input, nothing is written, no flag is
\* read, no assembly procedure is entered and the check file is not touched; the
\* run exits 1, its last line on std::cerr giving the error of each converter.
C8_UnrecognizedInput ==
    (Logged("read:input") /\ ManifestOf(fileContent) = NoDoc
                          /\ MatrixOf(fileContent) = NoDoc) =>
        /\ out = <<>>
        /\ \A i \in 1..Len(log) : log[i] \in {"read:input", "parse:manifest", "parse:matrix"}
        /\ ~mCheckFile.eof
        /\ Exited =>
              /\ status = 1
              /\ cerr # <<>>
              /\ cerr[Len(cerr)] =
                    Diag("Input file has unknown format.",
                         << ParseError("manifest", fileContent),
                            ParseError("matrix", fileContent) >>)

\* A run on a text neither converter accepts.
C8_Witness ==
    /\ Exited
    /\ fileContent = "garbage"
    /\ status = 1
    /\ Reported("Input file has unknown format.")

-----------------------------------------------------------------------------
(* C9 *)

\* The step in which getopt_long hands -c with this argument to the loop.
TakesC(optarg) == pc = "getopt" /\ opt' = Option("c", optarg) /\ optCount' = optCount + 1

\* -c with an empty argument: no file is opened, a warning is written, and the
\* objects of the run are left as they were, so that the run ends as the run
\* without the option does.
EmptyCheckArgumentStep ==
    TakesC(EmptyText) =>
        /\ mCheckFile' = mCheckFile
        /\ cerr' = Append(cerr, Diag("WARNING: no compatibility check is done on", inFilePath))
        /\ pc' = "getopt" /\ status' = Running
        /\ UNCHANGED << env, inFilePath, mInFile, mOutFileRef, mOutputMatrix, out, flushed, log >>
        /\ SameOutcome(run(main_end(State)), run(main_end(State')))

\* While no check file is open, the run takes no reference step.
NoCheckFileNoReferenceStep ==
    ~mCheckFile.is_open => \A i \in 1..Len(log) : log[i] \notin RefSteps

\* -c with a path that cannot be opened, no check file being open: main()
\* returns 1 at once, nothing parsed and nothing written.
UnopenableCheckFileExits ==
    (opt = Option("c", NoFile) /\ ~mCheckFile.is_open) =>
        /\ Exited /\ status = 1
        /\ out = <<>> /\ log = <<>>
        /\ cerr # <<>> /\ cerr[Len(cerr)] = Diag("Failed to open", NoFile)

-----------------------------------------------------------------------------
(* C10 *)

\* C10: for an input only the matrix converter accepts, the run with -m and
\* the run without -m write the same output and exit with the same status: no
\* matrix is generated, no comment is written, and what is written is the
\* serialized matrix.
C10_MatrixInputIgnoresM ==
    ClassifiedMatrix =>
        /\ ~Logged("selfcheck") /\ ~Logged("emit:skeleton") /\ ~Logged("emit:manifest")
        /\ \A i \in 1..Len(out) : out[i] # SkeletonComment
        /\ Logged("emit:matrix") => out = <<Serialize(matrix)>>
        /\ Exited =>
              SameOutcome(State,
                          run(restart([State EXCEPT !.mOutputMatrix = ~mOutputMatrix])))

\* A matrix assembled under -m: the matrix alone was written.
C10_Witness ==
    /\ Exited
    /\ ClassifiedMatrix
    /\ mOutputMatrix
    /\ out = <<Serialize(matrix)>>
    /\ status = 0

-----------------------------------------------------------------------------
(* C11 *)

\* main() has left its option loop and called assemble().
AssembleCalled == opt = Option("-1", EmptyText)

\* C11: while no input file is open nothing is read, parsed, injected, written
\* or checked, whatever the other options; the run exits 1, and when it gets as
\* far as assemble() its last line on std::cerr is "Missing input file.".
C11_MissingInputFile ==
    ~mInFile.is_open =>
        /\ log = <<>>
        /\ out = <<>> /\ flushed = 0
        /\ fileContent = EmptyText /\ halManifest = NoDoc /\ matrix = NoDoc
        /\ ~mCheckFile.eof
        /\ pc \in {"getopt", "assemble", "exit"}
        /\ Exited => status = 1
        /\ Exited /\ AssembleCalled =>
              cerr # <<>> /\ cerr[Len(cerr)] = Diag("Missing input file.", EmptyText)

\* assemble() was called with -m and a check file but no input file.
C11_Witness ==
    /\ Exited
    /\ AssembleCalled
    /\ ~mInFile.is_open
    /\ mOutputMatrix
    /\ mCheckFile.is_open
    /\ status = 1
    /\ Reported("Missing input file.")

-----------------------------------------------------------------------------
(* C12 *)

\* The stage of a run a call belongs to: classification (0), the assembly path
\* and its flags (1), the injected document (2), emission (3), reference check (4).
Stage(call) ==
    CASE call \in {"read:input", "parse:manifest", "parse:matrix"} -> 0
      [] call \in {"enter:assembleHalManifest", "enter:assembleCompatibilityMatrix",
                   "getenv:BOARD_SEPOLICY_VERS", "getenv:POLICYVERS"} -> 1
      [] call = "selfcheck" -> 2
      [] call \in EmitSteps \cup {"flush"} -> 3
      [] OTHER -> 4

\* A fatal condition has been reported: a flag is missing or unparseable, the
\* check file does not parse, or the reference check failed.
FatalReported ==
    \/ Reported("Required flag")
    \/ Reported("Cannot parse")
    \/ ManifestCheckFailed
    \/ MatrixCheckFailed

\* The calls in which a fatal condition can arise.
FailingCalls ==
    {"getenv:BOARD_SEPOLICY_VERS", "getenv:POLICYVERS",
     "refparse:matrix", "refparse:manifest", "refcheck"}

\* C12: the calls of a run go through the stages in order and never back, and
\* once a fatal condition has been reported the call that met it is the last
\* one: no parse, flag, emission or check step follows, and the run exits 1.
C12_FailFastForwardOnly ==
    /\ \A i, j \in 1..Len(log) : i < j => Stage(log[i]) <= Stage(log[j])
    /\ FatalReported =>
          /\ log # <<>> /\ log[Len(log)] \in FailingCalls
          /\ Exited => status = 1

-----------------------------------------------------------------------------
(* C13 *)

\* How many of the calls made so far are in the set calls.
Count(calls) == Cardinality({i \in 1..Len(log) : log[i] \in calls})

\* C13: a run executes at most one of the two assembly procedures and writes at
\* most one document: the emission of the manifest path is never followed by
\* the emission of the matrix path.
C13_OnePrimaryDocument ==
    /\ ~(Logged("enter:assembleHalManifest") /\ Logged("enter:assembleCompatibilityMatrix"))
    /\ Count(EmitSteps) <= 1
    /\ \A i, j \in 1..Len(log) :
          (i < j /\ log[i] \in {"emit:manifest", "emit:skeleton"}) => log[j] # "emit:matrix"

-----------------------------------------------------------------------------
(* C14 *)

\* C14, as claimed: the self-check of the generated matrix occurs only after
\* the skeleton has been written; in no reachable state has the self-check run
\* while the output is still empty.
C14_SelfCheckAfterEmission ==
    Logged("selfcheck") => out # <<>>

\* C14, amended: the self-check (and its diagnostic) comes before the skeleton
\* is written, nothing having been written before it, and the emission of the
\* skeleton is the very next call whatever the verdict; the output is empty
\* after the self-check only until that emission, and in no run that has exited.
C14_SelfCheckThenEmission ==
    /\ \A i \in 1..Len(log) :
          log[i] = "selfcheck" =>
              /\ \A j \in 1..(i - 1) : log[j] \notin EmitSteps
              /\ i < Len(log) => log[i + 1] = "emit:skeleton"
    /\ pc = "hm_emitMatrix" <=> (Logged("selfcheck") /\ out = <<>>)
    /\ Reported("FATAL ERROR: cannot generate a compatible matrix") /\ pc # "hm_emitMatrix" =>
          IsPrefix(ManifestEmission, out)
    /\ Exited /\ Logged("selfcheck") => out # <<>> /\ flushed = Len(out)

\* The self-check has failed and its diagnostic is written; nothing is written
\* to the output yet.
C14_Witness ==
    /\ pc = "hm_emitMatrix"
    /\ Logged("selfcheck")
    /\ Reported("FATAL ERROR: cannot generate a compatible matrix")
    /\ out = <<>>

-----------------------------------------------------------------------------
(* C15 *)

\* C15: "Input file has unknown format." is written only in runs in which
\* neither converter accepted the input; a run that fails on a flag or on the
\* reference check does not write it.
C15_UnknownFormatOnlyForUnrecognizedInput ==
    Reported("Input file has unknown format.") =>
        /\ ManifestOf(fileContent) = NoDoc /\ MatrixOf(fileContent) = NoDoc
        /\ ~FatalReported

-----------------------------------------------------------------------------
(* C16 *)

\* The matrix converter makes a framework matrix of the input.
FrameworkMatrixInput ==
    MatrixOf(fileContent) # NoDoc /\ MatrixOf(fileContent).mType = FRAMEWORK

\* The sepolicy requirement made of the two flags alone.
InjectedSepolicy ==
    LET v == getFlag(env, "BOARD_SEPOLICY_VERS", "Version").value
        k == getFlag(env, "POLICYVERS", "KernelSepolicyVersion").value
    IN  Sepolicy(k, {<<v.majorVer, v.minorVer>>})

\* C16: the matrix emitted for a framework matrix input requires exactly the
\* kernel sepolicy version of POLICYVERS and the one version of
\* BOARD_SEPOLICY_VERS, whatever the parsed document held, and with both flags
\* parseable the run of a matrix input does emit it; BOARD_SEPOLICY_VERS is read
\* before POLICYVERS, and when it is unset the diagnostic names it, POLICYVERS is
\* never read and nothing is emitted for the matrix.
C16_FrameworkMatrixInjection ==
    /\ FrameworkMatrixInput /\ Logged("emit:matrix") =>
          /\ BoardOk /\ PolicyOk
          /\ matrix.mSepolicy = InjectedSepolicy
          /\ out[Len(out)] = Serialize(CompatibilityMatrix(FRAMEWORK, InjectedSepolicy))
    /\ FrameworkMatrixInput /\ ClassifiedMatrix /\ BoardOk /\ PolicyOk /\ Exited =>
          Logged("emit:matrix")
    /\ \A j \in 1..Len(log) : log[j] = "getenv:POLICYVERS" =>
          \E i \in 1..(j - 1) : log[i] = "getenv:BOARD_SEPOLICY_VERS"
    /\ FrameworkMatrixInput /\ env["BOARD_SEPOLICY_VERS"].isNull =>
          /\ ~Logged("getenv:POLICYVERS")
          /\ ~Logged("emit:matrix")
          /\ ~ReportedAbout("Required flag", "POLICYVERS")
          /\ Logged("enter:assembleCompatibilityMatrix") /\ pc # "cm_getFlagBoard" =>
                ReportedAbout("Required flag", "BOARD_SEPOLICY_VERS")

\* A framework matrix holding version 25.0 has been emitted with 26.0 and 30.
C16_Witness ==
    /\ Exited /\ status = 0 /\ fileContent = "fwk_matrix"
    /\ env["BOARD_SEPOLICY_VERS"] = Str(<<"26", ".", "0">>)
    /\ env["POLICYVERS"] = Str(<<"30">>)
    /\ out = <<Serialize(CompatibilityMatrix(FRAMEWORK, Sepolicy(30, {<<26, 0>>})))>>

\* A framework matrix has met an unset BOARD_SEPOLICY_VERS.
C16_WitnessUnset ==
    /\ Exited /\ status = 1 /\ fileContent = "fwk_matrix"
    /\ env["BOARD_SEPOLICY_VERS"].isNull /\ ~env["POLICYVERS"].isNull
    /\ ReportedAbout("Required flag", "BOARD_SEPOLICY_VERS") /\ out = <<>>

-----------------------------------------------------------------------------
(* C17 *)

\* A check file has been read and the check against it has not passed.
ReferenceCheckFailed == ManifestCheckFailed \/ MatrixCheckFailed

\* What every run that has exited with 0 has done: it has read the input,
\* written and flushed exactly one serialization (with -m on a manifest: the
\* comment and the generated matrix) of an object holding the flags its kind
\* requires, and passed the one check against a check file it performed.
ExitZeroWroteOneCheckedDocument ==
    Exited /\ status = 0 =>
        /\ mInFile.is_open /\ log # <<>> /\ log[1] = "read:input"
        /\ halManifest # NoDoc \/ matrix # NoDoc
        /\ Count(EmitSteps) = 1
        /\ out # <<>> /\ flushed = Len(out)
        /\ ~Reported("Input file has unknown format.")
        /\ ~ReferenceCheckFailed
        /\ Logged("emit:manifest") =>
              /\ halManifest = ManifestOf(fileContent) \/ halManifest.mType = DEVICE
              /\ halManifest.mType = DEVICE =>
                    /\ BoardOk
                    /\ halManifest.mSepolicyVersion =
                          getFlag(env, "BOARD_SEPOLICY_VERS", "Version").value
              /\ out = <<Serialize(halManifest)>>
        /\ Logged("emit:skeleton") =>
              /\ halManifest.mType = DEVICE => BoardOk
              /\ out = <<SkeletonComment, Serialize(generatedMatrix)>>
        /\ Logged("emit:matrix") =>
              /\ matrix.mType = FRAMEWORK =>
                    BoardOk /\ PolicyOk /\ matrix.mSepolicy = InjectedSepolicy
              /\ out = <<Serialize(matrix)>>
        /\ Logged("read:check") =>
              /\ Count({"read:check"}) = 1 /\ Count({"refcheck"}) = 1
              /\ checkDoc # NoDoc
              /\ log[Len(log)] = "refcheck"
              /\ Logged("refparse:matrix") => checkCompatibility(halManifest, checkDoc)
              /\ Logged("refparse:manifest") => checkCompatibility(checkDoc, matrix)

\* C17: a run that has exited with 0 has read the input and parsed it as one
\* kind, has injected every flag that kind requires, has written exactly one
\* serialization and flushed it, and has passed every check against a check
\* file it performed on either path; no run exits with 0 after the check file
\* failed to parse or the check failed.
C17_ExitZeroIsSound ==
    /\ ExitZeroWroteOneCheckedDocument
    /\ Exited /\ status = 0 =>
          /\ ~(Logged("enter:assembleHalManifest") /\
               Logged("enter:assembleCompatibilityMatrix"))
          /\ ClassifiedManifest /\ halManifest.mType = DEVICE => BoardOk
          /\ ~Reported("Required flag") /\ ~Reported("Cannot parse")

-----------------------------------------------------------------------------
(* C18 *)

\* C18: the check file is read at most once in a run: its stream is never read
\* again after a check has consumed it, so every parse of the check file is
\* given the whole content of the file and never the empty text.
C18_CheckFileReadOnce ==
    /\ Count({"read:check"}) <= 1
    /\ Count({"refparse:matrix", "refparse:manifest"}) <= 1
    /\ ~ReportedAbout("Cannot parse check file as a compatibility matrix",
                      ParseError("matrix", EmptyText))
    /\ ~ReportedAbout("Cannot parse check file as a HAL manifest",
                      ParseError("manifest", EmptyText))

====
